---- MODULE Spec2Model ----
(***************************************************************************)
(* Verification model of the aranvis backend graph pipeline:               *)
(*   PreProcessingService (path deduplication, dependency-profile rollup),  *)
(*   VisualizationService (graph processing, violations, graph merging),    *)
(*   GraphVisualizationService (graph merging),                             *)
(*   ElementParserService.toEdgeData.                                       *)
(* Services whose source is not among the available files are modelled      *)
(* from the design specification and are marked as such in their comments.  *)
(***************************************************************************)
EXTENDS Integers, Sequences, FiniteSets, TLC

VARIABLES
  phase,          \* position of the running operation
  chunkRecords,   \* PreProcessingService: records after splitRelationshipsIntoChunks
  records,        \* PreProcessingService.records (after onlyKeepLongestPaths)
  parent,         \* Neo4jComponentNode.parent of every node (NoNode: none)
  dependencyProfile,  \* Neo4jComponentNode.dependencyProfile of every node
  givenProfile,   \* the dependencyProfile each node was constructed with
  layerNodes,     \* argument of the pending getDependencyProfile call
  assignments,    \* per node, how often line 106 assigned its dependencyProfile
  callDepth,      \* how many recursive getDependencyProfile calls (line 113) were made
  depth,          \* Neo4jComponentNode depth property of every node
  dbEdges,        \* the dependency relationships held by the external store
  selectedId,     \* processGraphAndGetViolations: selectedId
  originalNodes,  \* processor.original.nodes (ids, in MapSet order)
  options,        \* GraphFilterOptions {maxDepth, outgoingRange, incomingRange, selfEdges}
  replaceMap,     \* local replaceMap: whether it is defined, and its entries
  workRecords,    \* local records
  edges,          \* local edges
  nodes,          \* local nodes
  replaceResult,  \* local replaceResult {nodes, dependencyEdges}
  graph,          \* local graph {name, nodes, edges}
  violations,     \* result of getGraphViolations
  stages,         \* the processing stages executed so far, in order
  service,        \* the service whose getGraphFromSelectedNode is running
  fetched,        \* the graphs and switches getGraphFromSelectedNode works on
  treeGraph,      \* VisualizationService: local treeGraph
  mergedGraph,    \* the graph getGraphFromSelectedNode returns
  show,           \* getGraphFromSelectedNode: which dependency queries are asked for
  queryState,     \* per query of the invocation: unissued, pending, done or failed
  journal,        \* what the invocation and the store client did, in order
  outcome         \* how the promise of getGraphFromSelectedNode settled

varsPaths == <<chunkRecords, records>>
varsProfile ==
  <<parent, dependencyProfile, givenProfile, layerNodes, assignments, callDepth>>
varsInput == <<depth, dbEdges, selectedId, originalNodes, options>>
varsLocal == <<replaceMap, workRecords, edges, nodes, replaceResult, graph, violations, stages>>
varsProcess == <<varsInput, varsLocal>>
varsMerge == <<service, fetched, treeGraph, mergedGraph>>
varsInvocation == <<show, queryState, journal, outcome>>
vars == <<phase, varsPaths, varsProfile, varsProcess, varsMerge, varsInvocation>>

\* the state of a service that takes no part in the running operation
IdlePaths == chunkRecords = <<>> /\ records = <<>>

IdleProfile ==
  /\ parent = << >>
  /\ dependencyProfile = << >>
  /\ givenProfile = << >>
  /\ layerNodes = <<>>
  /\ assignments = << >>
  /\ callDepth = 0

IdleInvocation ==
  /\ show = << >>
  /\ queryState = << >>
  /\ journal = <<>>
  /\ outcome = << >>

IdleMerge ==
  /\ service = "none"
  /\ fetched = << >>
  /\ treeGraph = << >>
  /\ mergedGraph = << >>

IdleProcess ==
  /\ depth = << >>
  /\ dbEdges = {}
  /\ selectedId = "undefined"
  /\ originalNodes = <<>>
  /\ options = << >>
  /\ replaceMap = << >>
  /\ workRecords = <<>>
  /\ edges = <<>>
  /\ nodes = <<>>
  /\ replaceResult = << >>
  /\ graph = << >>
  /\ violations = << >>
  /\ stages = <<>>

----------------------------------------------------------------------------
(* Generic helpers: JavaScript array operations.                            *)

\* undefined, for values that are strings or booleans ("true" / "false")
Undefined == "undefined"

\* undefined, for values that are numbers
NoNumber == -1

Range(s) == {s[i] : i \in 1..Len(s)}

BoundedSeq(S, n) == UNION {[1..k -> S] : k \in 0..n}

Max2(a, b) == IF a >= b THEN a ELSE b

\* Array.prototype.flat() on an array of arrays
RECURSIVE flat(_)
flat(chunks) ==
  IF chunks = <<>> THEN <<>> ELSE Head(chunks) \o flat(Tail(chunks))

\* Array.prototype.join(sep) on an array of strings; a string is a sequence of
\* characters, sep is a single character
RECURSIVE join(_, _)
join(strs, sep) ==
  IF strs = <<>> THEN <<>>
  ELSE IF Len(strs) = 1 THEN Head(strs)
  ELSE Head(strs) \o <<sep>> \o join(Tail(strs), sep)

----------------------------------------------------------------------------
(* Containment hierarchy: the nodes of one PreProcessingService.            *)

NumNodes == 4

\* node ids; the MapSet of nodes iterates in increasing id order
Nodes == 1..NumNodes
NoNode == 0

RECURSIVE ancestorAt(_, _, _)
\* the node reached from n by k parent links (NoNode when the chain ends)
ancestorAt(par, n, k) ==
  IF n = NoNode \/ k = 0 THEN n ELSE ancestorAt(par, par[n], k - 1)

\* parent links as setParentChildNodes leaves them on a containment forest
Forests ==
  {par \in [Nodes -> Nodes \cup {NoNode}] :
     \A n \in Nodes : ancestorAt(par, n, NumNodes) = NoNode}

\* node.children, in id order
childrenOf(par, n) ==
  SelectSeq([i \in 1..NumNodes |-> i], LAMBDA c : par[c] = n)

----------------------------------------------------------------------------
(* PreProcessingService.calculateDependencyProfile / getDependencyProfile   *)

\* the dependency profiles a node is constructed with
InitialProfiles == {<<1, 0, 0, 2>>, <<0, 1, 3, 0>>}

\* helpers/array filterDuplicates: keep the first occurrence of every element
filterDuplicates(s) ==
  LET firstAt(i) == \A j \in 1..(i - 1) : s[j] # s[i]
      RECURSIVE keepFrom(_)
      keepFrom(i) ==
        IF i > Len(s) THEN <<>>
        ELSE IF firstAt(i) THEN <<s[i]>> \o keepFrom(i + 1)
        ELSE keepFrom(i + 1)
  IN keepFrom(1)

\* mutation: the nodes that have a parent are kept instead of their parents
parentListOf_layer(par, layer) ==
  filterDuplicates(SelectSeq(layer, LAMBDA n : par[n] # NoNode))

\* layerNodes.map((n) => n.parent).filter((p) => p != null).filter(filterDuplicates)
parentListOf(par, layer) ==
  filterDuplicates(
    SelectSeq([i \in 1..Len(layer) |-> par[layer[i]]], LAMBDA p : p # NoNode))

\* mutation: the fourth slot is not carried over
RECURSIVE reduceChildren_dropSlot(_, _, _)
reduceChildren_dropSlot(profiles, children, newProfile) ==
  IF children = <<>> THEN newProfile
  ELSE LET childProfile == profiles[Head(children)]
           result == [i \in 1..4 |-> newProfile[i] + childProfile[i]]
       IN reduceChildren_dropSlot(profiles, Tail(children),
                                  <<result[1], result[2], result[3], 0>>)

\* parent.children.reduce(... newProfile.map((x, i) => x + childProfile[i]), [0,0,0,0])
RECURSIVE reduceChildren(_, _, _)
reduceChildren(profiles, children, newProfile) ==
  IF children = <<>> THEN newProfile
  ELSE LET childProfile == profiles[Head(children)]
           result == [i \in 1..4 |-> newProfile[i] + childProfile[i]]
       IN reduceChildren(profiles, Tail(children),
                         <<result[1], result[2], result[3], result[4]>>)

\* parents.forEach(...): the profiles after assigning the first k parents in order
RECURSIVE profilesAfter(_, _, _, _)
profilesAfter(par, profiles, parents, k) ==
  IF k = 0 THEN profiles
  ELSE LET before == profilesAfter(par, profiles, parents, k - 1)
       IN [before EXCEPT ![parents[k]] =
             reduceChildren(before, childrenOf(par, parents[k]), <<0, 0, 0, 0>>)]

InitProfile ==
  /\ phase = "nodes"
  /\ parent \in Forests
  /\ givenProfile \in [Nodes -> InitialProfiles]
  /\ dependencyProfile = givenProfile
  /\ layerNodes = <<>>
  /\ assignments = [n \in Nodes |-> 0]
  /\ callDepth = 0
  /\ IdlePaths
  /\ IdleProcess
  /\ IdleMerge
  /\ IdleInvocation

\* calculateDependencyProfile, lines 121-127: the first call, on the leaf nodes
CalculateDependencyProfile ==
  /\ phase = "nodes"
  /\ layerNodes' = SelectSeq([i \in 1..NumNodes |-> i],
                             LAMBDA n : Len(childrenOf(parent, n)) = 0)
  /\ phase' = "rollup"
  /\ UNCHANGED <<parent, dependencyProfile, givenProfile, assignments, callDepth>>
  /\ UNCHANGED <<varsPaths, varsProcess, varsMerge, varsInvocation>>

\* the recursion cannot be deeper than the forest has nodes
MaxCallDepth == NumNodes

\* getDependencyProfile, lines 91-114: one call that finds parents and recurses
GetDependencyProfileRecurse ==
  /\ phase = "rollup"
  /\ callDepth < MaxCallDepth
  /\ LET parentList == parentListOf(parent, layerNodes)
     IN /\ Len(parentList) # 0
        /\ dependencyProfile' =
             profilesAfter(parent, dependencyProfile, parentList, Len(parentList))
        /\ assignments' =
             [n \in Nodes |->
                IF n \in Range(parentList) THEN assignments[n] + 1 ELSE assignments[n]]
        /\ layerNodes' = parentList
        /\ callDepth' = callDepth + 1
  /\ UNCHANGED <<phase, parent, givenProfile, varsPaths, varsProcess, varsMerge, varsInvocation>>

\* getDependencyProfile, line 101: the call that finds no parent and returns
GetDependencyProfileReturn ==
  /\ phase = "rollup"
  /\ Len(parentListOf(parent, layerNodes)) = 0
  /\ phase' = "profiled"
  /\ UNCHANGED <<varsProfile, varsPaths, varsProcess, varsMerge, varsInvocation>>

NextProfile ==
  \/ CalculateDependencyProfile
  \/ GetDependencyProfileRecurse
  \/ GetDependencyProfileReturn

SpecProfile == InitProfile /\ [][NextProfile]_vars

\* the rollup is synchronous code that runs to completion: a call that can be
\* made is made; all nodes are constructed with the same profile
InitProfileFair ==
  /\ InitProfile
  /\ \E profile \in InitialProfiles : givenProfile = [n \in Nodes |-> profile]

SpecProfileFair == InitProfileFair /\ [][NextProfile]_vars /\ WF_vars(NextProfile)

hasChildren(n) == \E c \in Nodes : parent[c] = n

RECURSIVE sumSlot(_, _)
sumSlot(S, i) ==
  IF S = {} THEN 0
  ELSE LET c == CHOOSE x \in S : TRUE
       IN dependencyProfile[c][i] + sumSlot(S \ {c}, i)

\* the longest chain of child links below n
RECURSIVE heightOf(_)
heightOf(n) ==
  IF ~hasChildren(n) THEN 0
  ELSE LET hs == {heightOf(c) : c \in {d \in Nodes : parent[d] = n}}
       IN 1 + CHOOSE h \in hs : \A g \in hs : g <= h

forestHeight == CHOOSE h \in {heightOf(n) : n \in Nodes} :
                  \A n \in Nodes : heightOf(n) <= h

\* C13: on every containment forest the rollup returns, and the frontier
\* sequence leaves, parents of leaves, ... has found an empty parent set after
\* at most height-of-forest recursive calls.
C13_RollupTerminates ==
  <>(phase = "profiled" /\ callDepth <= forestHeight)

\* a returned rollup that needed as many recursive calls as the forest is
\* high, on a forest with a chain of three nodes and a shallower leaf
C13_Witness ==
  /\ phase = "profiled"
  /\ forestHeight >= 2
  /\ callDepth = forestHeight
  /\ \E n \in Nodes : parent[n] # NoNode /\ heightOf(n) = 0 /\ heightOf(parent[n]) = 2

\* C5: when the rollup has finished, every node with a child holds the
\* element-wise sum of the final footprints of its children, and every leaf
\* holds the footprint it was constructed with.
C5_RollupIsSumOfChildren ==
  phase = "profiled" =>
    \A n \in Nodes :
      IF hasChildren(n)
      THEN dependencyProfile[n] =
             [i \in 1..4 |-> sumSlot({c \in Nodes : parent[c] = n}, i)]
      ELSE dependencyProfile[n] = givenProfile[n]

\* a finished rollup on a forest whose leaves lie at different depths
C5_Witness ==
  /\ phase = "profiled"
  /\ \E n \in Nodes :
       \E c, d \in Nodes :
         /\ parent[c] = n /\ parent[d] = n
         /\ heightOf(c) = 0 /\ heightOf(d) > 0

\* C6: during one rollup every node's footprint is computed exactly once: a
\* node with children is assigned once, a leaf keeps the one footprint it was
\* constructed with (no assignment).
C6_EveryFootprintComputedOnce ==
  phase = "profiled" =>
    \A n \in Nodes : assignments[n] = (IF hasChildren(n) THEN 1 ELSE 0)

----------------------------------------------------------------------------
(* The external store and the path records it returns.                      *)

MaxEdges == 2
MaxAbstractionDepth == 2

\* containment held by the store: node 1 is the root domain and node n is
\* contained in node n \div 2
containerOf(n) == n \div 2

RECURSIVE storeDepth(_)
storeDepth(n) ==
  IF containerOf(n) = NoNode THEN 0 ELSE 1 + storeDepth(containerOf(n))

\* n and the nodes that contain it, nearest first
RECURSIVE containChain(_)
containChain(n) ==
  IF n = NoNode THEN <<>> ELSE <<n>> \o containChain(containerOf(n))

isContainedIn(n, a) == a \in Range(containChain(n))

\* the modules of the store: the nodes that contain nothing
Modules == {n \in Nodes : 2 * n > NumNodes}

DependencyTypes == {"WEAK", "STRONG"}

\* a dependency relationship of the store (Neo4jComponentRelationship)
storeRelationship(m, d, t) ==
  [elementId |-> <<m, d, t>>,
   startNodeElementId |-> m,
   endNodeElementId |-> d,
   type |-> "DEPENDS_ON",
   properties |-> [id |-> <<"k", "_", "_", "r">>,
                   referenceType |-> "Call",
                   dependencyType |-> t],
   violations |-> [subLayer |-> FALSE, dependencyCycle |-> FALSE]]

\* one relationship per ordered pair of modules
StoreRelationships ==
  {storeRelationship(m, d, IF m <= d THEN "WEAK" ELSE "STRONG") : m, d \in Modules}

\* the relationships in the order the store returns them
RECURSIVE sortedRelationships(_)
sortedRelationships(S) ==
  IF S = {} THEN <<>>
  ELSE LET key(e) == (e.startNodeElementId * (NumNodes + 1) + e.endNodeElementId) * 2
                       + (IF e.properties.dependencyType = "STRONG" THEN 1 ELSE 0)
           first == CHOOSE e \in S : \A f \in S : key(e) <= key(f)
       IN <<first>> \o sortedRelationships(S \ {first})

rootOf(n) == containChain(n)[Len(containChain(n))]

\* the path records of the outgoing dependency query after preprocessing: one
\* connected path per relationship that starts below the selected node, from
\* the selected node down to the relationship and up to the root of its end
pathRecordsOf(selected, rels) ==
  LET mine == SelectSeq(sortedRelationships(rels),
                        LAMBDA e : isContainedIn(e.startNodeElementId, selected))
  IN [i \in 1..Len(mine) |->
        [source |-> selected,
         target |-> rootOf(mine[i].endNodeElementId),
         dependencyEdges |-> << <<mine[i]>> >>]]

\* getAllNodes: the sources and targets of the rows the store returned, first
\* occurrence first; the store returns one row per ancestor of the end of a
\* path (allParents) or only the row of the end itself
allNodesOf(recs, allParents) ==
  filterDuplicates(flat(
    [i \in 1..Len(recs) |->
       LET end == flat(recs[i].dependencyEdges)[1].endNodeElementId
       IN <<recs[i].source>> \o (IF allParents THEN containChain(end) ELSE <<end>>)]))

\* Partial<Range>; an undefined range reads as a range without min and max
NoRange == [min |-> NoNumber, max |-> NoNumber]

FilterOptions ==
  [maxDepth : {NoNumber} \cup 0..MaxAbstractionDepth,
   outgoingRange : {NoRange, [min |-> 2, max |-> NoNumber], [min |-> NoNumber, max |-> 1]},
   incomingRange : {NoRange, [min |-> NoNumber, max |-> 1]},
   selfEdges : {Undefined, "true", "false"}]

----------------------------------------------------------------------------
(* MapSet: an insertion-ordered map keyed by id, held as a sequence of      *)
(* entries with distinct keys (modelled from the design specification).     *)

\* MapSet.set: a new id is appended, a known id keeps its place and takes the
\* new value
mapSetSet(ms, entry) ==
  IF \E i \in 1..Len(ms) : ms[i].id = entry.id
  THEN [i \in 1..Len(ms) |-> IF ms[i].id = entry.id THEN entry ELSE ms[i]]
  ELSE Append(ms, entry)

\* MapSet.from(...entries)
RECURSIVE mapSetFrom(_)
mapSetFrom(entries) ==
  IF entries = <<>> THEN <<>>
  ELSE mapSetSet(mapSetFrom(SubSeq(entries, 1, Len(entries) - 1)),
                 entries[Len(entries)])

mapSetIds(ms) == {ms[i].id : i \in 1..Len(ms)}

----------------------------------------------------------------------------
(* ElementParserService.toEdgeData                                          *)

\* String.prototype.toLowerCase on the relationship types of the store
toLowerCase(t) ==
  CASE t = "DEPENDS_ON" -> "depends_on"
    [] t = "CONTAINS" -> "contains"
    [] OTHER -> t

\* str.split('__')[0]: the characters before the first "__"
RECURSIVE splitFirst(_)
splitFirst(str) ==
  IF str = <<>> THEN <<>>
  ELSE IF Len(str) >= 2 /\ str[1] = "_" /\ str[2] = "_" THEN <<>>
  ELSE <<Head(str)>> \o splitFirst(Tail(str))

\* mutation: the violation markers of the relationship are not copied
toEdgeData_noViolations(edge) ==
  [id |-> edge.elementId,
   source |-> edge.startNodeElementId,
   target |-> edge.endNodeElementId,
   interaction |-> toLowerCase(edge.type),
   properties |->
     [referenceKeys |-> <<splitFirst(edge.properties.id)>>,
      weight |-> 1,
      violations |-> [subLayer |-> FALSE, dependencyCycle |-> FALSE, any |-> FALSE],
      referenceTypes |-> <<edge.properties.referenceType>>,
      dependencyTypes |->
        IF edge.properties.dependencyType # Undefined
        THEN <<edge.properties.dependencyType>> ELSE <<>>]]

toEdgeData(edge) ==
  [id |-> edge.elementId,
   source |-> edge.startNodeElementId,
   target |-> edge.endNodeElementId,
   interaction |-> toLowerCase(edge.type),
   properties |->
     [referenceKeys |-> <<splitFirst(edge.properties.id)>>,
      weight |-> 1,
      violations |->
        [subLayer |-> IF "violations" \in DOMAIN edge
                      THEN edge.violations.subLayer ELSE FALSE,
         dependencyCycle |-> IF "violations" \in DOMAIN edge
                             THEN edge.violations.dependencyCycle ELSE FALSE,
         any |-> IF "violations" \in DOMAIN edge
                 THEN edge.violations.subLayer \/ edge.violations.dependencyCycle
                 ELSE FALSE],
      referenceTypes |-> <<edge.properties.referenceType>>,
      dependencyTypes |->
        IF edge.properties.dependencyType # Undefined
        THEN <<edge.properties.dependencyType>> ELSE <<>>]]

----------------------------------------------------------------------------
(* ProcessingService: the graph-processing steps, modelled from the design  *)
(* specification (section 4.3).                                             *)

\* the node itself or its nearest ancestor over node.parent whose depth is d
RECURSIVE ancestorWithDepth(_, _)
ancestorWithDepth(n, d) ==
  IF n = NoNode THEN NoNode
  ELSE IF depth[n] = d THEN n
  ELSE ancestorWithDepth(parent[n], d)

\* getAbstractionMap: every node deeper than maxDepth that has an ancestor at
\* exactly maxDepth is mapped to that ancestor
getAbstractionMap(maxDepth) ==
  LET mapped == {n \in Range(originalNodes) :
                   /\ depth[n] > maxDepth
                   /\ ancestorWithDepth(parent[n], maxDepth) # NoNode}
  IN [n \in mapped |-> ancestorWithDepth(parent[n], maxDepth)]

replaced(map, id) == IF id \in DOMAIN map THEN map[id] ELSE id

\* applyAbstraction: the endpoints of every dependency edge are rewritten
\* through the map
applyAbstraction(recs, map) ==
  [i \in 1..Len(recs) |->
     [recs[i] EXCEPT !.dependencyEdges =
        [c \in 1..Len(@) |->
           [k \in 1..Len(@[c]) |->
              [@[c][k] EXCEPT
                 !.startNodeElementId = replaced(map, @),
                 !.endNodeElementId = replaced(map, @)]]]]]

\* every dependency edge of the records, in order
dependencyEdgesOf(recs) ==
  flat(flat([i \in 1..Len(recs) |-> recs[i].dependencyEdges]))

\* the distinct neighbours of a node over dependency edges in one direction
neighboursOf(recs, node, outgoing) ==
  LET es == dependencyEdgesOf(recs)
  IN IF outgoing
     THEN {es[i].endNodeElementId :
             i \in {j \in 1..Len(es) : es[j].startNodeElementId = node}}
     ELSE {es[i].startNodeElementId :
             i \in {j \in 1..Len(es) : es[j].endNodeElementId = node}}

\* the node a record is counted for: where its dependency edges start
\* (outgoing) or end (incoming)
endpointOf(record, outgoing) ==
  LET es == flat(record.dependencyEdges)
  IN IF es = <<>> THEN NoNode
     ELSE IF outgoing THEN es[1].startNodeElementId
     ELSE es[Len(es)].endNodeElementId

\* applyMinMaxRelationshipsFilter: drop the records whose endpoint has a
\* number of distinct neighbours outside [min, max]
applyMinMaxRelationshipsFilter(recs, outgoing, min, max) ==
  IF min = NoNumber /\ max = NoNumber THEN recs
  ELSE LET count(r) == Cardinality(neighboursOf(recs, endpointOf(r, outgoing), outgoing))
           keep(r) == /\ (min = NoNumber \/ count(r) >= min)
                      /\ (max = NoNumber \/ count(r) <= max)
       IN SelectSeq(recs, keep)

\* getAllEdges: the dependency edges of the records as one MapSet of EdgeData
getAllEdges(recs) ==
  LET es == dependencyEdgesOf(recs)
  IN mapSetFrom([i \in 1..Len(es) |-> toEdgeData(es[i])])

\* the elements of both lists without duplicates, first occurrence first
unionList(a, b) == filterDuplicates(a \o b)

\* the representative of a set of edges with equal source and target
mergeInto(rep, e) ==
  [rep EXCEPT
     !.properties.dependencyTypes = unionList(@, e.properties.dependencyTypes),
     !.properties.violations =
       [subLayer |-> @.subLayer \/ e.properties.violations.subLayer,
        dependencyCycle |-> @.dependencyCycle \/ e.properties.violations.dependencyCycle,
        any |-> @.any \/ e.properties.violations.any]]

\* mergeDuplicateEdges: one representative edge per (source, target)
RECURSIVE mergeDuplicateEdges(_)
mergeDuplicateEdges(es) ==
  IF es = <<>> THEN <<>>
  ELSE LET merged == mergeDuplicateEdges(SubSeq(es, 1, Len(es) - 1))
           e == es[Len(es)]
           same(i) == merged[i].source = e.source /\ merged[i].target = e.target
       IN IF \E i \in 1..Len(merged) : same(i)
          THEN [i \in 1..Len(merged) |->
                  IF same(i) THEN mergeInto(merged[i], e) ELSE merged[i]]
          ELSE Append(merged, e)

edgeEndpoints(es) == UNION {{es[i].source, es[i].target} : i \in 1..Len(es)}

\* filterNodesByEdges: keep the endpoints of the edges, the selected node and
\* the ancestors that connect them
filterNodesByEdges(ns, es) ==
  LET keep(n) == \/ n \in edgeEndpoints(es)
                 \/ n = selectedId
                 \/ \E x \in edgeEndpoints(es) : isContainedIn(x, n)
  IN SelectSeq(ns, keep)

\* the node itself when visible, else its nearest visible ancestor
RECURSIVE visibleAncestor(_, _)
visibleAncestor(ns, id) ==
  IF id = NoNode THEN NoNode
  ELSE IF id \in Range(ns) THEN id
  ELSE visibleAncestor(ns, containerOf(id))

projected(ns, id) ==
  IF visibleAncestor(ns, id) = NoNode THEN id ELSE visibleAncestor(ns, id)

\* replaceEdgeWithParentRelationship: rewrite every endpoint that is not a
\* visible node to its nearest visible ancestor
replaceEdgeWithParentRelationship(ns, es, relationship) ==
  [nodes |-> ns,
   dependencyEdges |->
     [i \in 1..Len(es) |->
        [es[i] EXCEPT !.source = projected(ns, @), !.target = projected(ns, @)]]]

\* filterSelfEdges
filterSelfEdges(es) == SelectSeq(es, LAMBDA e : e.source # e.target)

----------------------------------------------------------------------------
(* Violation services, modelled from the design specification (4.4, 4.5).   *)

\* the reference a violation holds to a dependency edge
edgeRef(id, source, target) == [id |-> id, source |-> source, target |-> target]

\* all sequences of n distinct elements of S
RECURSIVE distinctSeqs(_, _)
distinctSeqs(S, n) ==
  IF n = 0 THEN {<<>>}
  ELSE LET shorter == distinctSeqs(S, n - 1)
       IN UNION {{Append(q, x) : x \in S \ Range(q)} : q \in shorter}

RECURSIVE setToSeq(_)
setToSeq(S) ==
  IF S = {} THEN <<>>
  ELSE LET x == CHOOSE y \in S : TRUE IN <<x>> \o setToSeq(S \ {x})

\* a closed chain of relationships without a repeated node, written from its
\* first relationship in store order
isElementaryCycle(c) ==
  /\ \A i \in 1..Len(c) :
       c[i].endNodeElementId = c[(i % Len(c)) + 1].startNodeElementId
  /\ \A i, j \in 1..Len(c) :
       i # j => c[i].startNodeElementId # c[j].startNodeElementId
  /\ \A i \in 2..Len(c) : c[1] = sortedRelationships({c[1], c[i]})[1]

\* getDependencyCycles: the elementary cycles of the store, each once
getDependencyCycles(rels) ==
  setToSeq(UNION {{c \in distinctSeqs(rels, n) : isElementaryCycle(c)} :
                    n \in 1..Cardinality(rels)})

\* the edge of the graph with the given endpoints, if any
matchingEdges(g, source, target) ==
  SelectSeq(g.edges, LAMBDA e : e.source = source /\ e.target = target)

\* what a violation becomes when one of its edges has no edge in the graph
DroppedViolation == [dropped |-> TRUE]

\* ViolationBaseService.replaceWithCorrectEdgeIds: the ids of the violation's
\* edges are replaced by the ids of the graph's edges with the same endpoints;
\* a violation with an edge the graph does not hold is dropped
replaceWithCorrectEdgeIds(v, g) ==
  IF \A i \in 1..Len(v.edges) :
       matchingEdges(g, v.edges[i].source, v.edges[i].target) # <<>>
  THEN [v EXCEPT !.edges =
          [i \in 1..Len(v.edges) |->
             [v.edges[i] EXCEPT
                !.id = matchingEdges(g, v.edges[i].source, v.edges[i].target)[1].id]]]
  ELSE DroppedViolation

\* a cycle of the store with its endpoints rewritten through the map
rewrittenCycle(cycle, map) ==
  [edges |->
     [i \in 1..Len(cycle) |->
        edgeRef(cycle[i].elementId,
                replaced(map, cycle[i].startNodeElementId),
                replaced(map, cycle[i].endNodeElementId))]]

cycleNodes(v) == UNION {{v.edges[i].source, v.edges[i].target} : i \in 1..Len(v.edges)}

cycleEdgeIds(v) == {v.edges[i].id : i \in 1..Len(v.edges)}

\* extractAndAbstractDependencyCycles: rewrite every cycle through the map,
\* discard it when fewer than 2 distinct nodes remain or when an edge has no
\* visible edge, and keep one cycle per set of visible edge ids
RECURSIVE extractAndAbstractDependencyCycles(_, _, _, _)
extractAndAbstractDependencyCycles(cycles, recs, g, map) ==
  IF cycles = <<>> THEN <<>>
  ELSE LET before == extractAndAbstractDependencyCycles(
                       SubSeq(cycles, 1, Len(cycles) - 1), recs, g, map)
           rewritten == rewrittenCycle(cycles[Len(cycles)], map)
           visible == replaceWithCorrectEdgeIds(rewritten, g)
       IN IF Cardinality(cycleNodes(rewritten)) < 2 THEN before
          ELSE IF visible = DroppedViolation THEN before
          ELSE IF \E i \in 1..Len(before) : cycleEdgeIds(before[i]) = cycleEdgeIds(visible)
          THEN before
          ELSE Append(before, visible)

\* extractLayerViolations: one violation per marked dependency edge of the
\* records, with the layers of its endpoints
extractLayerViolations(recs, marked) ==
  LET es == SelectSeq(dependencyEdgesOf(recs), LAMBDA e : e.elementId \in marked)
      vs == [i \in 1..Len(es) |->
               [id |-> es[i].elementId,
                edges |-> <<edgeRef(es[i].elementId, es[i].startNodeElementId,
                                    es[i].endNodeElementId)>>,
                sourceLayer |-> storeDepth(es[i].startNodeElementId),
                targetLayer |-> storeDepth(es[i].endNodeElementId)]]
  IN mapSetFrom(vs)

----------------------------------------------------------------------------
(* VisualizationService.processGraphAndGetViolations                        *)

NoReplaceMap == [defined |-> FALSE, map |-> << >>]

\* mutation: the map is computed one level too deep
replaceMapFor_deeper(maxDepth) ==
  IF maxDepth # NoNumber
  THEN [defined |-> TRUE, map |-> getAbstractionMap(maxDepth + 1)]
  ELSE NoReplaceMap

\* lines 85-88
replaceMapFor(maxDepth) ==
  IF maxDepth # NoNumber
  THEN [defined |-> TRUE, map |-> getAbstractionMap(maxDepth)]
  ELSE NoReplaceMap

\* replaceMap && replaceMap.size > 0
hasReplacements(rm) == rm.defined /\ DOMAIN rm.map # {}

InitLocals ==
  /\ replaceMap = NoReplaceMap
  /\ workRecords = <<>>
  /\ edges = <<>>
  /\ nodes = <<>>
  /\ replaceResult = [nodes |-> <<>>, dependencyEdges |-> <<>>]
  /\ graph = [name |-> "", nodes |-> <<>>, edges |-> <<>>]
  /\ violations = [dependencyCycles |-> <<>>, subLayers |-> <<>>]
  /\ stages = <<>>

\* the state in which processGraphAndGetViolations is entered
InitProcessWith(relationships, maxEdges, selectable, filterOptions) ==
  /\ phase = "start"
  /\ selectedId \in selectable
  /\ dbEdges \in {E \in SUBSET relationships : Cardinality(E) <= maxEdges}
  /\ options \in filterOptions
  /\ records = pathRecordsOf(selectedId, dbEdges)
  /\ \E allParents \in BOOLEAN : originalNodes = allNodesOf(records, allParents)
  /\ parent = [n \in Nodes |->
                 IF n \in Range(originalNodes) /\ containerOf(n) \in Range(originalNodes)
                 THEN containerOf(n) ELSE NoNode]
  /\ depth = [n \in Nodes |-> storeDepth(n)]
  /\ InitLocals
  /\ IdleMerge
  /\ IdleInvocation
  /\ chunkRecords = <<>>
  /\ dependencyProfile = << >>
  /\ givenProfile = << >>
  /\ layerNodes = <<>>
  /\ assignments = << >>
  /\ callDepth = 0

Init == InitProcessWith(StoreRelationships, MaxEdges, {1, 2}, FilterOptions)

unchangedByProcess == <<varsPaths, varsProfile, varsInput, varsMerge, varsInvocation>>

\* lines 85-88: the nodes that need to be replaced
FindReplacements ==
  /\ phase = "start"
  /\ replaceMap' = replaceMapFor(options.maxDepth)
  /\ phase' = "mapped"
  /\ UNCHANGED <<workRecords, edges, nodes, replaceResult, graph, violations, stages>>
  /\ UNCHANGED unchangedByProcess

\* lines 90-95
Abstraction ==
  /\ phase = "mapped"
  /\ IF hasReplacements(replaceMap)
     THEN /\ workRecords' = applyAbstraction(records, replaceMap.map)
          /\ stages' = Append(stages, "abstraction")
     ELSE /\ workRecords' = records
          /\ UNCHANGED stages
  /\ phase' = "abstracted"
  /\ UNCHANGED <<replaceMap, edges, nodes, replaceResult, graph, violations>>
  /\ UNCHANGED unchangedByProcess

\* lines 98-99
OutgoingRangeFilter ==
  /\ phase = "abstracted"
  /\ workRecords' = applyMinMaxRelationshipsFilter(
                      workRecords, TRUE, options.outgoingRange.min, options.outgoingRange.max)
  /\ stages' = Append(stages, "outgoingRange")
  /\ phase' = "outgoingFiltered"
  /\ UNCHANGED <<replaceMap, edges, nodes, replaceResult, graph, violations>>
  /\ UNCHANGED unchangedByProcess

\* lines 100-101
IncomingRangeFilter ==
  /\ phase = "outgoingFiltered"
  /\ workRecords' = applyMinMaxRelationshipsFilter(
                      workRecords, FALSE, options.incomingRange.min, options.incomingRange.max)
  /\ stages' = Append(stages, "incomingRange")
  /\ phase' = "incomingFiltered"
  /\ UNCHANGED <<replaceMap, edges, nodes, replaceResult, graph, violations>>
  /\ UNCHANGED unchangedByProcess

\* line 103
MergeEdges ==
  /\ phase = "incomingFiltered"
  /\ edges' = mergeDuplicateEdges(getAllEdges(workRecords))
  /\ stages' = Append(stages, "merge")
  /\ phase' = "merged"
  /\ UNCHANGED <<replaceMap, workRecords, nodes, replaceResult, graph, violations>>
  /\ UNCHANGED unchangedByProcess

\* line 105
PruneNodes ==
  /\ phase = "merged"
  /\ nodes' = filterNodesByEdges(originalNodes, edges)
  /\ stages' = Append(stages, "prune")
  /\ phase' = "pruned"
  /\ UNCHANGED <<replaceMap, workRecords, edges, replaceResult, graph, violations>>
  /\ UNCHANGED unchangedByProcess

\* line 107
Projection ==
  /\ phase = "pruned"
  /\ replaceResult' = replaceEdgeWithParentRelationship(nodes, edges, "contains")
  /\ stages' = Append(stages, "projection")
  /\ phase' = "projected"
  /\ UNCHANGED <<replaceMap, workRecords, edges, nodes, graph, violations>>
  /\ UNCHANGED unchangedByProcess

\* mutation: self edges are removed whenever selfEdges is not true
SelfEdges_unlessTrue ==
  /\ phase = "projected"
  /\ IF options.selfEdges # "true"
     THEN /\ replaceResult' = [replaceResult EXCEPT
                                 !.dependencyEdges = filterSelfEdges(@)]
          /\ stages' = Append(stages, "selfEdges")
     ELSE UNCHANGED <<replaceResult, stages>>
  /\ phase' = "selfEdgesDone"
  /\ UNCHANGED <<replaceMap, workRecords, edges, nodes, graph, violations>>
  /\ UNCHANGED unchangedByProcess

\* lines 109-111
SelfEdges ==
  /\ phase = "projected"
  /\ IF options.selfEdges = "false"
     THEN /\ replaceResult' = [replaceResult EXCEPT
                                 !.dependencyEdges = filterSelfEdges(@)]
          /\ stages' = Append(stages, "selfEdges")
     ELSE UNCHANGED <<replaceResult, stages>>
  /\ phase' = "selfEdgesDone"
  /\ UNCHANGED <<replaceMap, workRecords, edges, nodes, graph, violations>>
  /\ UNCHANGED unchangedByProcess

\* mutation: the graph takes the merged edges instead of the projected ones
graphOf_unprojected(result) ==
  [name |-> "Dependency graph",
   nodes |-> result.nodes,
   edges |-> edges]

\* lines 113-117
graphOf(result) ==
  [name |-> "Dependency graph",
   nodes |-> result.nodes,
   edges |-> result.dependencyEdges]

BuildGraph ==
  /\ phase = "selfEdgesDone"
  /\ graph' = graphOf(replaceResult)
  /\ phase' = "graphBuilt"
  /\ UNCHANGED <<replaceMap, workRecords, edges, nodes, replaceResult, violations, stages>>
  /\ UNCHANGED unchangedByProcess

\* mutation: the cycles are extracted without the replacement map
dependencyCyclesOf_noMap(cyclicalDependencies, recs, g, rm) ==
  extractAndAbstractDependencyCycles(cyclicalDependencies, recs, g, << >>)

\* getGraphViolations, lines 139-140
dependencyCyclesOf(cyclicalDependencies, recs, g, rm) ==
  extractAndAbstractDependencyCycles(
    cyclicalDependencies, recs, g, IF rm.defined THEN rm.map ELSE << >>)

\* getGraphViolations, lines 144-146
subLayersOf(sublayerViolations, g) ==
  [i \in 1..Len(sublayerViolations) |->
     replaceWithCorrectEdgeIds(sublayerViolations[i], g)]

\* lines 119-128 and getGraphViolations, lines 131-152; the layer rule is
\* external configuration: any set of the records' edges may be marked
GetGraphViolations ==
  /\ phase = "graphBuilt"
  /\ \E marked \in SUBSET {e.elementId : e \in Range(dependencyEdgesOf(records))} :
       violations' =
         [dependencyCycles |->
            dependencyCyclesOf(getDependencyCycles(dbEdges), records, graph, replaceMap),
          subLayers |-> subLayersOf(extractLayerViolations(records, marked), graph)]
  /\ phase' = "returned"
  /\ UNCHANGED <<replaceMap, workRecords, edges, nodes, replaceResult, graph, stages>>
  /\ UNCHANGED unchangedByProcess

Next ==
  \/ FindReplacements
  \/ Abstraction
  \/ OutgoingRangeFilter
  \/ IncomingRangeFilter
  \/ MergeEdges
  \/ PruneNodes
  \/ Projection
  \/ SelfEdges
  \/ BuildGraph
  \/ GetGraphViolations

Spec == Init /\ [][Next]_vars

\* the depth of a node on a forest whose roots lie at depth 0, or at depth 1
\* when the root's own container is outside the selected scope
RECURSIVE depthIn(_, _, _)
depthIn(par, outside, n) ==
  IF par[n] = NoNode THEN (IF n \in outside THEN 1 ELSE 0)
  ELSE 1 + depthIn(par, outside, par[n])

\* processGraphAndGetViolations entered on an arbitrary containment forest,
\* without dependencies
InitAbstraction ==
  /\ phase = "start"
  /\ selectedId = 1
  /\ dbEdges = {}
  /\ options \in {o \in FilterOptions :
                     /\ o.outgoingRange = NoRange /\ o.incomingRange = NoRange
                     /\ o.selfEdges = Undefined}
  /\ records = <<>>
  /\ originalNodes = [i \in 1..NumNodes |-> i]
  /\ parent \in Forests
  /\ \E outside \in SUBSET {n \in Nodes : parent[n] = NoNode} :
       depth = [n \in Nodes |-> depthIn(parent, outside, n)]
  /\ InitLocals
  /\ IdleMerge
  /\ IdleInvocation
  /\ chunkRecords = <<>>
  /\ dependencyProfile = << >>
  /\ givenProfile = << >>
  /\ layerNodes = <<>>
  /\ assignments = << >>
  /\ callDepth = 0

SpecAbstraction == InitAbstraction /\ [][Next]_vars

\* the violation markers a relationship may carry; NoViolations is a plain
\* store relationship without the field
NoViolations == "none"

ViolationMarkers == {NoViolations, "subLayer", "dependencyCycle"}

markedRelationship(m, d, t, v) ==
  LET plain == [elementId |-> <<m, d, t, v>>,
                startNodeElementId |-> m,
                endNodeElementId |-> d,
                type |-> "DEPENDS_ON",
                properties |-> [id |-> <<"k", "_", "_", "r">>,
                                referenceType |-> "Call",
                                dependencyType |-> t]]
  IN IF v = NoViolations THEN plain
     ELSE [f \in DOMAIN plain \cup {"violations"} |->
             IF f = "violations"
             THEN [subLayer |-> v = "subLayer", dependencyCycle |-> v = "dependencyCycle"]
             ELSE plain[f]]

\* relationships between the two deepest modules, with and without dependency
\* type and violation markers
MergeRelationships ==
  {markedRelationship(x[1], NumNodes, x[2], x[3]) :
     x \in {NumNodes - 1, NumNodes} \X (DependencyTypes \cup {Undefined}) \X ViolationMarkers}

MergeOptions ==
  {o \in FilterOptions :
     /\ o.outgoingRange = NoRange /\ o.incomingRange = NoRange
     /\ o.selfEdges = Undefined}

InitMergeEdges == InitProcessWith(MergeRelationships, MaxEdges, {1}, MergeOptions)

SpecMergeEdges == InitMergeEdges /\ [][Next]_vars

\* a store with parallel relationships and a self dependency between the two
\* deepest modules, for the cycles
CycleRelationships ==
  {storeRelationship(NumNodes - 1, NumNodes, "WEAK"),
   storeRelationship(NumNodes, NumNodes - 1, "WEAK"),
   storeRelationship(NumNodes, NumNodes - 1, "STRONG"),
   storeRelationship(NumNodes, NumNodes, "WEAK")}

CycleOptions ==
  [maxDepth : {NoNumber} \cup 0..MaxAbstractionDepth,
   outgoingRange : {NoRange},
   incomingRange : {NoRange},
   selfEdges : {Undefined, "false"}]

InitCycles ==
  InitProcessWith(CycleRelationships, Cardinality(CycleRelationships), {1}, CycleOptions)

SpecCycles == InitCycles /\ [][Next]_vars

----------------------------------------------------------------------------
(* getGraphFromSelectedNode: the merge of the fetched graphs.               *)
(* PostProcessingService and GraphPostProcessingService are modelled from   *)
(* the design specification (section 4.6). The name of a graph plays no     *)
(* part in the merge and is left out.                                       *)

MaxGraphIds == 2

GraphIds == 1..MaxGraphIds

\* merge(...graphs): the nodes and the edges of the graphs are set into one
\* MapSet each, graph after graph
RECURSIVE mergeGraphs(_)
mergeGraphs(graphs) ==
  IF graphs = <<>> THEN [nodes |-> <<>>, edges |-> <<>>]
  ELSE LET before == mergeGraphs(SubSeq(graphs, 1, Len(graphs) - 1))
           g == graphs[Len(graphs)]
       IN [nodes |-> mapSetFrom(before.nodes \o g.nodes),
           edges |-> mapSetFrom(before.edges \o g.edges)]

\* the entries of one graph: distinct ids, all with the data of that graph
entriesOf(ids, data) == [i \in 1..Len(ids) |-> [id |-> ids[i], data |-> data]]

NodeLists == UNION {distinctSeqs(GraphIds, n) : n \in 0..2}

EdgeLists == {<<>>, <<1>>, <<MaxGraphIds, 1>>}

\* the graphs a query with the given data can be formatted to
GraphsWith(data, nodeLists, edgeLists) ==
  {[nodes |-> entriesOf(ns, data), edges |-> entriesOf(es, data)] :
     ns \in nodeLists, es \in edgeLists}

\* VisualizationService.getGraphFromSelectedNode after its queries
InitVisualization ==
  /\ service = "VisualizationService"
  /\ fetched \in [parents : GraphsWith("parents", NodeLists, EdgeLists),
                  children : GraphsWith("children", NodeLists, EdgeLists),
                  dependencyGraph : GraphsWith("dependencies", NodeLists, EdgeLists)]

\* GraphVisualizationService.getGraphFromSelectedNode after its queries
InitGraphVisualization ==
  /\ service = "GraphVisualizationService"
  /\ fetched \in [parents : GraphsWith("parents", NodeLists, EdgeLists),
                  children : GraphsWith("children", NodeLists, EdgeLists),
                  showDependencies : BOOLEAN,
                  dependencyGraph : GraphsWith("dependencies", NodeLists, EdgeLists),
                  showDependents : BOOLEAN,
                  dependentGraph :
                    GraphsWith("dependents", {l \in NodeLists : Len(l) <= 1}, {<<>>})]
  /\ ~fetched.showDependencies =>
       fetched.dependencyGraph = [nodes |-> <<>>, edges |-> <<>>]
  /\ ~fetched.showDependents =>
       fetched.dependentGraph = [nodes |-> <<>>, edges |-> <<>>]

InitGraphMerge ==
  /\ phase = "graphsFetched"
  /\ InitVisualization \/ InitGraphVisualization
  /\ treeGraph = << >>
  /\ mergedGraph = << >>
  /\ IdlePaths
  /\ IdleProfile
  /\ IdleProcess
  /\ IdleInvocation

\* VisualizationService, lines 225-229
MergeTreeGraph ==
  /\ phase = "graphsFetched"
  /\ service = "VisualizationService"
  /\ treeGraph' = mergeGraphs(<<fetched.parents, fetched.children>>)
  /\ phase' = "treeGraphMerged"
  /\ UNCHANGED <<service, fetched, mergedGraph, varsPaths, varsProfile, varsProcess, varsInvocation>>

\* mutation: the tree graph is merged into the dependency graph
MergeDependencyGraph_swapped ==
  /\ phase = "treeGraphMerged"
  /\ mergedGraph' = mergeGraphs(<<fetched.dependencyGraph, treeGraph>>)
  /\ phase' = "graphMerged"
  /\ UNCHANGED <<service, fetched, treeGraph, varsPaths, varsProfile, varsProcess, varsInvocation>>

\* VisualizationService, line 253
MergeDependencyGraph ==
  /\ phase = "treeGraphMerged"
  /\ mergedGraph' = mergeGraphs(<<treeGraph, fetched.dependencyGraph>>)
  /\ phase' = "graphMerged"
  /\ UNCHANGED <<service, fetched, treeGraph, varsPaths, varsProfile, varsProcess, varsInvocation>>

\* GraphVisualizationService, lines 75-103: the local graphs
graphsOf(f) ==
  <<f.parents, f.children>>
  \o (IF f.showDependencies THEN <<f.dependencyGraph>> ELSE <<>>)
  \o (IF f.showDependents THEN <<f.dependentGraph>> ELSE <<>>)

\* GraphVisualizationService, lines 75-106
MergeGraphs ==
  /\ phase = "graphsFetched"
  /\ service = "GraphVisualizationService"
  /\ mergedGraph' = mergeGraphs(graphsOf(fetched))
  /\ phase' = "graphMerged"
  /\ UNCHANGED <<service, fetched, treeGraph, varsPaths, varsProfile, varsProcess, varsInvocation>>

NextGraphMerge ==
  \/ MergeTreeGraph
  \/ MergeDependencyGraph
  \/ MergeGraphs

SpecGraphMerge == InitGraphMerge /\ [][NextGraphMerge]_vars

----------------------------------------------------------------------------
(* getGraphFromSelectedNode as an asynchronous invocation: the queries it    *)
(* issues to the store client, their completion or failure, and how its      *)
(* promise settles. The code between two awaits runs without interruption    *)
(* and is one step. Neo4jClient and the violation services are modelled from *)
(* the design specification (sections 5 and 7): a query is pending until the *)
(* store answers or fails, and a failure rejects the awaiting call.          *)

\* the two retrievals dispatched together (Promise.all)
TreeQueries == {"parents", "children"}

\* the queries awaited one after the other once the retrievals are in:
\* VisualizationService lines 233-242 and 138-143,
\* GraphVisualizationService lines 79-102
planOf(svc, sh) ==
  (IF sh.outgoing THEN <<"outgoing">> ELSE <<>>)
  \o (IF sh.incoming THEN <<"incoming">> ELSE <<>>)
  \o (IF svc = "VisualizationService" THEN <<"cycles", "layers">> ELSE <<>>)

Queries == TreeQueries \cup {"outgoing", "incoming", "cycles", "layers"}

issueOf(q) == <<"issue", q>>

\* the synchronous work done just before a query is issued
stepsBefore(svc, q) ==
  IF svc = "VisualizationService" /\ q = "cycles"
  THEN <<<<"step", "processGraph">>>> ELSE <<>>

\* what the invocation does once it is past item i - 1 of its plan: issue the
\* next query, or merge the graphs and destroy the client
\* (VisualizationService lines 253-255, GraphVisualizationService line 104)
resumeAt(svc, plan, i) ==
  IF i <= Len(plan)
  THEN [events |-> stepsBefore(svc, plan[i]) \o <<issueOf(plan[i])>>,
        issued |-> {plan[i]},
        phase |-> plan[i]]
  ELSE [events |-> (IF svc = "VisualizationService"
                    THEN <<<<"step", "mergeGraph">>>> ELSE <<>>)
                   \o <<<<"client", "destroy">>>>,
        issued |-> {},
        phase |-> "awaitDestroy"]

\* mutation: Promise.race, the first retrieval to complete resumes the invocation
treeSettled_first(qs) == \E q \in TreeQueries : qs[q] = "done"

\* Promise.all over the two retrievals is fulfilled
treeSettled(qs) == \A q \in TreeQueries : qs[q] = "done"

indexOf(plan, q) == CHOOSE i \in 1..Len(plan) : plan[i] = q

Running == [status |-> "running", error |-> "none", result |-> "none"]

InitInvocation ==
  /\ phase = "invoked"
  /\ service \in {"VisualizationService", "GraphVisualizationService"}
  /\ show \in [outgoing : BOOLEAN, incoming : BOOLEAN]
  /\ queryState = [q \in Queries |-> "unissued"]
  /\ journal = <<>>
  /\ outcome = Running
  /\ fetched = << >>
  /\ treeGraph = << >>
  /\ mergedGraph = << >>
  /\ IdlePaths
  /\ IdleProfile
  /\ IdleProcess

unchangedByInvocation ==
  <<service, show, fetched, treeGraph, mergedGraph, varsPaths, varsProfile, varsProcess>>

\* VisualizationService lines 225-228, GraphVisualizationService lines 75-78:
\* getParents and getChildren each run up to their query, then Promise.all is
\* awaited
StartRetrievals ==
  /\ phase = "invoked"
  /\ queryState' = [q \in Queries |->
                      IF q \in TreeQueries THEN "pending" ELSE queryState[q]]
  /\ journal' = journal \o <<issueOf("parents"), issueOf("children")>>
  /\ phase' = "awaitTree"
  /\ UNCHANGED <<outcome, unchangedByInvocation>>

\* a retrieval's query is answered while Promise.all is awaited; with both in,
\* the invocation resumes (VisualizationService line 229 and on)
RetrievalCompletes ==
  /\ phase = "awaitTree"
  /\ \E q \in TreeQueries :
       /\ queryState[q] = "pending"
       /\ LET answered == [queryState EXCEPT ![q] = "done"]
              resume == resumeAt(service, planOf(service, show), 1)
          IN IF treeSettled(answered)
             THEN /\ queryState' = [x \in Queries |->
                                      IF x \in resume.issued THEN "pending"
                                      ELSE answered[x]]
                  /\ journal' = journal \o <<<<"complete", q>>>>
                                  \o (IF service = "VisualizationService"
                                      THEN <<<<"step", "mergeTree">>>> ELSE <<>>)
                                  \o resume.events
                  /\ phase' = resume.phase
             ELSE /\ queryState' = answered
                  /\ journal' = Append(journal, <<"complete", q>>)
                  /\ UNCHANGED phase
  /\ UNCHANGED <<outcome, unchangedByInvocation>>

\* the awaited query of the plan is answered and the invocation resumes
AwaitedQueryCompletes ==
  /\ phase \in Range(planOf(service, show))
  /\ queryState[phase] = "pending"
  /\ LET plan == planOf(service, show)
         resume == resumeAt(service, plan, indexOf(plan, phase) + 1)
     IN /\ queryState' = [x \in Queries |->
                            IF x = phase THEN "done"
                            ELSE IF x \in resume.issued THEN "pending"
                            ELSE queryState[x]]
        /\ journal' = journal \o <<<<"complete", phase>>>> \o resume.events
        /\ phase' = resume.phase
  /\ UNCHANGED <<outcome, unchangedByInvocation>>

\* mutation: a failed dependency query is caught and the invocation goes on
\* without its records
QueryFails_caught ==
  \E q \in Queries :
    /\ queryState[q] = "pending"
    /\ IF phase = "failed"
       THEN /\ queryState' = [queryState EXCEPT ![q] = "failed"]
            /\ journal' = Append(journal, <<"fail", q>>)
            /\ UNCHANGED <<phase, outcome>>
       ELSE IF q \in {"outgoing", "incoming"}
       THEN LET plan == planOf(service, show)
                resume == resumeAt(service, plan, indexOf(plan, q) + 1)
            IN /\ queryState' = [x \in Queries |->
                                   IF x = q THEN "failed"
                                   ELSE IF x \in resume.issued THEN "pending"
                                   ELSE queryState[x]]
               /\ journal' = journal \o <<<<"fail", q>>>> \o resume.events
               /\ phase' = resume.phase
               /\ UNCHANGED outcome
       ELSE /\ queryState' = [queryState EXCEPT ![q] = "failed"]
            /\ journal' = journal \o <<<<"fail", q>>, <<"end", "throw">>>>
            /\ outcome' = [status |-> "failed", error |-> q, result |-> "none"]
            /\ phase' = "failed"
    /\ UNCHANGED unchangedByInvocation

\* mutation: the client is destroyed in a finally block
QueryFails_finally ==
  \E q \in Queries :
    /\ queryState[q] = "pending"
    /\ queryState' = [queryState EXCEPT ![q] = "failed"]
    /\ IF phase = "failed"
       THEN /\ journal' = Append(journal, <<"fail", q>>)
            /\ UNCHANGED <<phase, outcome>>
       ELSE /\ journal' = journal \o <<<<"fail", q>>, <<"client", "destroy">>,
                                       <<"end", "throw">>>>
            /\ outcome' = [status |-> "failed", error |-> q, result |-> "none"]
            /\ phase' = "failed"
    /\ UNCHANGED unchangedByInvocation

\* the store fails a pending query. No catch surrounds an await of
\* getGraphFromSelectedNode, processGraphAndGetViolations or
\* getGraphViolations: the rejection of an awaited query (for the retrievals,
\* the first rejection under Promise.all) rejects the invocation at once. A
\* retrieval still pending when the invocation has failed can fail later.
QueryFails ==
  \E q \in Queries :
    /\ queryState[q] = "pending"
    /\ queryState' = [queryState EXCEPT ![q] = "failed"]
    /\ IF phase = "failed"
       THEN /\ journal' = Append(journal, <<"fail", q>>)
            /\ UNCHANGED <<phase, outcome>>
       ELSE /\ journal' = journal \o <<<<"fail", q>>, <<"end", "throw">>>>
            /\ outcome' = [status |-> "failed", error |-> q, result |-> "none"]
            /\ phase' = "failed"
    /\ UNCHANGED unchangedByInvocation

\* a retrieval still pending when the invocation has failed is answered
AbandonedQueryCompletes ==
  /\ phase = "failed"
  /\ \E q \in Queries :
       /\ queryState[q] = "pending"
       /\ queryState' = [queryState EXCEPT ![q] = "done"]
       /\ journal' = Append(journal, <<"complete", q>>)
  /\ UNCHANGED <<phase, outcome, unchangedByInvocation>>

\* VisualizationService lines 255-260, GraphVisualizationService lines 104-106:
\* client.destroy() resolves and the result is returned
DestroyCompletes ==
  /\ phase = "awaitDestroy"
  /\ journal' = journal
                  \o (IF service = "GraphVisualizationService"
                      THEN <<<<"step", "mergeGraph">>>> ELSE <<>>)
                  \o <<<<"end", "return">>>>
  /\ outcome' = [status |-> "returned", error |-> "none",
                 result |-> IF service = "VisualizationService"
                            THEN "graphAndViolations" ELSE "graph"]
  /\ phase' = "returned"
  /\ UNCHANGED <<queryState, unchangedByInvocation>>

NextInvocation ==
  \/ StartRetrievals
  \/ RetrievalCompletes
  \/ AwaitedQueryCompletes
  \/ QueryFails
  \/ AbandonedQueryCompletes
  \/ DestroyCompletes

SpecInvocation == InitInvocation /\ [][NextInvocation]_vars

----------------------------------------------------------------------------
(* Properties of processGraphAndGetViolations                               *)

\* a step of the invocation that comes after the two retrievals
isLaterStep(e) ==
  \/ e[1] = "step"
  \/ e = <<"client", "destroy">>
  \/ e = <<"end", "return">>
  \/ e[1] = "issue" /\ e[2] \notin TreeQueries

\* C11: the parent and the child retrieval are both started before anything is
\* awaited, and no later step (tree-graph merge, dependency queries, graph
\* processing, violation detection, destroy, return) begins before both
\* retrievals have completed, whichever completes first.
C11_RetrievalsStartedTogetherAndJoined ==
  /\ phase # "invoked" =>
       /\ Len(journal) >= 2
       /\ {journal[1], journal[2]} = {issueOf(q) : q \in TreeQueries}
  /\ \A i \in 1..Len(journal) :
       isLaterStep(journal[i]) =>
         \A q \in TreeQueries : \E j \in 1..(i - 1) : journal[j] = <<"complete", q>>

\* the child retrieval completed first, the parent retrieval second, and only
\* then the tree graph was merged and the next query issued
C11_Witness ==
  /\ service = "VisualizationService"
  /\ Len(journal) >= 6
  /\ journal[3] = <<"complete", "children">>
  /\ journal[4] = <<"complete", "parents">>
  /\ journal[5] = <<"step", "mergeTree">>
  /\ journal[6][1] = "issue"

failIndices == {i \in 1..Len(journal) : journal[i][1] = "fail"}

firstFailure == CHOOSE i \in failIndices : \A j \in failIndices : i <= j

timesIssued(q) == Cardinality({i \in 1..Len(journal) : journal[i] = issueOf(q)})

\* C12 as stated: every query that fails ends the invocation in failure with
\* that query's own error and no result, and is issued once only.
C12_EveryFailureIsSurfaced ==
  \A q \in Queries :
    /\ timesIssued(q) <= 1
    /\ queryState[q] = "failed" =>
         outcome = [status |-> "failed", error |-> q, result |-> "none"]

\* C12, amended: when a query fails the invocation ends in failure with the
\* error of the first query that failed and with no result; nothing is issued
\* after that failure, and no query is ever issued twice. (A retrieval that
\* fails after its sibling has already failed the invocation is not surfaced.)
C12_FirstFailureIsFatal ==
  /\ \A q \in Queries : timesIssued(q) <= 1
  /\ failIndices # {} =>
       /\ outcome = [status |-> "failed", error |-> journal[firstFailure][2],
                     result |-> "none"]
       /\ \A i \in 1..Len(journal) : i > firstFailure => journal[i][1] # "issue"

\* both retrievals failed, the child retrieval first, and the invocation has
\* failed with the child retrieval's error
C12_Witness ==
  /\ queryState["children"] = "failed"
  /\ queryState["parents"] = "failed"
  /\ journal[firstFailure] = <<"fail", "children">>
  /\ outcome.status = "failed"
  /\ outcome.error = "children"

destroyIndices == {i \in 1..Len(journal) : journal[i] = <<"client", "destroy">>}

\* C14: the client is destroyed at most once, after every issued query has
\* completed, and no query is issued afterwards; an invocation that returned a
\* result destroyed it exactly once before returning, and an invocation that
\* failed on a query did not destroy it.
C14_ClientDestroyedOnceAtTheEnd ==
  /\ Cardinality(destroyIndices) <= 1
  /\ \A d \in destroyIndices :
       \A i \in 1..Len(journal) :
         journal[i][1] = "issue" =>
           /\ i < d
           /\ \E j \in (i + 1)..(d - 1) : journal[j] = <<"complete", journal[i][2]>>
  /\ outcome.status = "returned" =>
       /\ Cardinality(destroyIndices) = 1
       /\ \A d \in destroyIndices : d < Len(journal)
       /\ journal[Len(journal)] = <<"end", "return">>
  /\ outcome.status = "failed" => destroyIndices = {}

\* a returned invocation that issued all six queries of VisualizationService
C14_Witness ==
  /\ outcome.status = "returned"
  /\ \A q \in Queries : queryState[q] = "done"
  /\ Cardinality(destroyIndices) = 1

graphReady == phase \in {"graphBuilt", "returned"}

\* C1: every edge of the graph produced by the processing pipeline has its
\* source id and its target id in the node collection of that graph.
C1_EdgesConnectGraphNodes ==
  graphReady =>
    \A i \in 1..Len(graph.edges) :
      /\ graph.edges[i].source \in Range(graph.nodes)
      /\ graph.edges[i].target \in Range(graph.nodes)

\* a graph with an edge that was abstracted and then projected onto a visible
\* ancestor, next to a node that was pruned
C1_Witness ==
  /\ graphReady
  /\ hasReplacements(replaceMap)
  /\ Len(graph.nodes) < Len(originalNodes)
  /\ \E i \in 1..Len(graph.edges) : \E j \in 1..Len(edges) :
       /\ graph.edges[i].id = edges[j].id
       /\ graph.edges[i].source # edges[j].source
       /\ edges[j].source \notin Range(graph.nodes)

isPrefix(a, b) == Len(a) <= Len(b) /\ a = SubSeq(b, 1, Len(a))

expectedStages ==
  (IF hasReplacements(replaceMap) THEN <<"abstraction">> ELSE <<>>)
  \o <<"outgoingRange", "incomingRange", "merge", "prune", "projection">>
  \o (IF options.selfEdges = "false" THEN <<"selfEdges">> ELSE <<>>)

\* the graph obtained by feeding every stage the output of the one before
composedGraph ==
  LET r0 == IF hasReplacements(replaceMap)
            THEN applyAbstraction(records, replaceMap.map) ELSE records
      r1 == applyMinMaxRelationshipsFilter(
              r0, TRUE, options.outgoingRange.min, options.outgoingRange.max)
      r2 == applyMinMaxRelationshipsFilter(
              r1, FALSE, options.incomingRange.min, options.incomingRange.max)
      es == mergeDuplicateEdges(getAllEdges(r2))
      ns == filterNodesByEdges(originalNodes, es)
      rr == replaceEdgeWithParentRelationship(ns, es, "contains")
  IN [name |-> "Dependency graph",
      nodes |-> rr.nodes,
      edges |-> IF options.selfEdges = "false"
                THEN filterSelfEdges(rr.dependencyEdges) ELSE rr.dependencyEdges]

\* C7: the stages run in the order abstraction (only with a non-empty
\* replacement map), outgoing range filter, incoming range filter, edge
\* collection and merge, node pruning, projection, self-edge removal (only when
\* selfEdges is false), and each stage consumes the output of the one before.
C7_StagesInFixedOrder ==
  /\ phase # "start" => isPrefix(stages, expectedStages)
  /\ graphReady => stages = expectedStages /\ graph = composedGraph

\* a finished run in which all seven stages ran, abstraction rewrote an edge,
\* two edges were merged and a self edge was removed
C7_Witness ==
  /\ phase = "returned"
  /\ Len(stages) = 7
  /\ workRecords # records
  /\ Len(edges) < Len(workRecords)
  /\ Len(graph.edges) < Len(edges)

visibleEdgeIds == mapSetIds(graph.edges)

\* C8: every entry of the report's layer-violation list refers to the id of an
\* edge of the visible graph; a violation without a visible edge is absent.
C8_LayerViolationsReferToVisibleEdges ==
  phase = "returned" =>
    \A i \in 1..Len(violations.subLayers) :
      /\ "dropped" \notin DOMAIN violations.subLayers[i]
      /\ \A k \in 1..Len(violations.subLayers[i].edges) :
           violations.subLayers[i].edges[k].id \in visibleEdgeIds

strictAncestors(n) == {ancestorAt(parent, n, k) : k \in 1..NumNodes} \ {NoNode}

\* C2: every entry (n -> A) of the replacement map has depth(n) > maxDepth,
\* depth(A) = maxDepth and A a strict ancestor of n, and exactly the nodes
\* deeper than maxDepth with an ancestor at maxDepth have an entry.
C2_AbstractionMapIsCorrect ==
  (phase # "start" /\ options.maxDepth # NoNumber) =>
    /\ replaceMap.defined
    /\ \A n \in DOMAIN replaceMap.map :
         /\ depth[n] > options.maxDepth
         /\ depth[replaceMap.map[n]] = options.maxDepth
         /\ replaceMap.map[n] \in strictAncestors(n)
    /\ \A n \in Range(originalNodes) :
         n \in DOMAIN replaceMap.map <=>
           /\ depth[n] > options.maxDepth
           /\ \E a \in strictAncestors(n) : depth[a] = options.maxDepth

\* a computed map with an entry two levels up, next to a node deeper than
\* maxDepth that has no ancestor at maxDepth and a node at maxDepth
C2_Witness ==
  /\ phase = "mapped"
  /\ \E n \in DOMAIN replaceMap.map : replaceMap.map[n] # parent[n]
  /\ \E n \in Nodes : depth[n] > options.maxDepth /\ n \notin DOMAIN replaceMap.map
  /\ \E n \in Nodes : depth[n] = options.maxDepth

\* the relationships that enter the merge, after abstraction and filtering
rawEdges == Range(dependencyEdgesOf(workRecords))

rawEdgesOf(source, target) ==
  {r \in rawEdges : r.startNodeElementId = source /\ r.endNodeElementId = target}

\* C3: after mergeDuplicateEdges there is one edge per (source, target) of the
\* raw edges and no other edge; its dependency types are the union of those of
\* the raw edges of the pair, and each violation flag is true exactly when a
\* raw edge of the pair has it true.
C3_MergeIsSound ==
  "merge" \in Range(stages) =>
    /\ \A r \in rawEdges :
         Cardinality({i \in 1..Len(edges) :
                        /\ edges[i].source = r.startNodeElementId
                        /\ edges[i].target = r.endNodeElementId}) = 1
    /\ \A i \in 1..Len(edges) :
         LET raw == rawEdgesOf(edges[i].source, edges[i].target)
         IN /\ raw # {}
            /\ Range(edges[i].properties.dependencyTypes) =
                 {r.properties.dependencyType : r \in raw} \ {Undefined}
            /\ edges[i].properties.violations.subLayer <=>
                 \E r \in raw : "violations" \in DOMAIN r /\ r.violations.subLayer
            /\ edges[i].properties.violations.dependencyCycle <=>
                 \E r \in raw : "violations" \in DOMAIN r /\ r.violations.dependencyCycle

\* two raw edges brought onto one pair by abstraction and merged into one edge
\* with both dependency types and exactly one of the two flags
C3_Witness ==
  /\ phase = "merged"
  /\ workRecords # records
  /\ Cardinality(rawEdges) = 2
  /\ Len(edges) = 1
  /\ Len(edges[1].properties.dependencyTypes) = 2
  /\ edges[1].properties.violations.subLayer
  /\ ~edges[1].properties.violations.dependencyCycle
  /\ \E r \in rawEdges : "violations" \notin DOMAIN r

\* the graphs given to the merge, in the order they are given
mergeInputs ==
  IF service = "VisualizationService"
  THEN <<fetched.parents, fetched.children, fetched.dependencyGraph>>
  ELSE graphsOf(fetched)

\* the merged collection holds every id of the inputs once, in the order the
\* ids are first seen, each with the entry of the last input that holds it
mergedLikeInputs(field) ==
  LET out == mergedGraph[field]
      all == flat([k \in 1..Len(mergeInputs) |-> mergeInputs[k][field]])
      firstSeen(id) == CHOOSE i \in 1..Len(all) :
                         all[i].id = id /\ \A j \in 1..(i - 1) : all[j].id # id
      lastSeen(id) == CHOOSE i \in 1..Len(all) :
                        all[i].id = id /\ \A j \in (i + 1)..Len(all) : all[j].id # id
  IN /\ {out[i].id : i \in 1..Len(out)} = {all[i].id : i \in 1..Len(all)}
     /\ \A i, j \in 1..Len(out) :
          i < j => /\ out[i].id # out[j].id
                   /\ firstSeen(out[i].id) < firstSeen(out[j].id)
     /\ \A i \in 1..Len(out) : out[i] = all[lastSeen(out[i].id)]

\* C10: the merged graph's node ids and edge ids are the unions of the inputs'
\* ids, no id occurs twice, an id of several inputs carries the attributes of
\* the last input that holds it, and the ids keep the order in which they are
\* first seen.
C10_MergeIsUnionLastWinsFirstSeenOrder ==
  phase = "graphMerged" => mergedLikeInputs("nodes") /\ mergedLikeInputs("edges")

\* three graphs merged where the first node of the result was first seen in
\* the first graph, carries the data of the third, and stands second there
C10_Witness ==
  /\ phase = "graphMerged"
  /\ Len(mergeInputs) = 3
  /\ Len(mergedGraph.nodes) = 2
  /\ mergedGraph.nodes[1].id \in mapSetIds(mergeInputs[1].nodes)
  /\ Len(mergeInputs[3].nodes) = 2
  /\ mergedGraph.nodes[1] = mergeInputs[3].nodes[2]
  /\ Len(mergedGraph.edges) = 2
  /\ mergedGraph.edges[1].data # mergedGraph.edges[2].data

usedMap == IF replaceMap.defined THEN replaceMap.map ELSE << >>

rawCycles == Range(getDependencyCycles(dbEdges))

\* a raw cycle that keeps fewer than 2 distinct nodes when rewritten
degenerates(c) == Cardinality(cycleNodes(rewrittenCycle(c, usedMap))) < 2

\* every rewritten edge of the raw cycle has an edge in the visible graph
isVisible(c) ==
  \A i \in 1..Len(c) :
    \E k \in 1..Len(graph.edges) :
      /\ graph.edges[k].source = replaced(usedMap, c[i].startNodeElementId)
      /\ graph.edges[k].target = replaced(usedMap, c[i].endNodeElementId)

\* the visible edge ids a raw cycle rewrites to
visibleIdsOf(c) ==
  {matchingEdges(graph, replaced(usedMap, c[i].startNodeElementId),
                 replaced(usedMap, c[i].endNodeElementId))[1].id : i \in 1..Len(c)}

entriesWithIds(ids) ==
  {i \in 1..Len(violations.dependencyCycles) :
     cycleEdgeIds(violations.dependencyCycles[i]) = ids}

\* C9: the raw cycles that rewrite to one set of visible edge ids produce
\* exactly one dependency-cycle entry together, and a raw cycle that keeps
\* fewer than 2 distinct nodes after rewriting produces no entry.
C9_CyclesDedupedAndDegenerateDropped ==
  phase = "returned" =>
    /\ \A c \in rawCycles :
         isVisible(c) =>
           Cardinality(entriesWithIds(visibleIdsOf(c))) = (IF degenerates(c) THEN 0 ELSE 1)
    /\ \A i \in 1..Len(violations.dependencyCycles) :
         \E c \in rawCycles :
           /\ isVisible(c) /\ ~degenerates(c)
           /\ cycleEdgeIds(violations.dependencyCycles[i]) = visibleIdsOf(c)

\* two raw cycles rewritten through a non-empty map to the same visible edges
\* with one entry for both, next to a cycle that the map collapses into one
\* visible node
C9_Witness ==
  /\ phase = "returned"
  /\ hasReplacements(replaceMap)
  /\ \E c, d \in rawCycles :
       /\ c # d
       /\ isVisible(c) /\ isVisible(d) /\ ~degenerates(c)
       /\ visibleIdsOf(c) = visibleIdsOf(d)
       /\ Cardinality(entriesWithIds(visibleIdsOf(c))) = 1
  /\ \E c \in rawCycles :
       /\ isVisible(c) /\ degenerates(c)
       /\ c[1].startNodeElementId \in DOMAIN usedMap

----------------------------------------------------------------------------
(* PreProcessingService.onlyKeepLongestPaths                                *)

MaxRecords == 3
MaxTargetDepth == 2

\* record.dependencyEdges: chunks of dependency relationships (element ids only)
DependencyEdgeChunks ==
  { <<>>,
    << <<[elementId |-> <<"4">>]>> >>,
    << <<[elementId |-> <<"4", "5">>]>> >>,
    << <<[elementId |-> <<"4">>], [elementId |-> <<"5">>]>> >>,
    << <<[elementId |-> <<"4">>]>>, <<[elementId |-> <<"5">>]>> >>,
    << <<[elementId |-> <<"5">>]>>, <<[elementId |-> <<"4">>]>> >> }

PathRecords ==
  [dependencyEdges : DependencyEdgeChunks, targetDepth : 0..MaxTargetDepth]

\* record.dependencyEdges.flat().map((e) => e.elementId).join(',')
pathIdOf(record) ==
  LET es == flat(record.dependencyEdges)
  IN join([i \in 1..Len(es) |-> es[i].elementId], ",")

\* seenPaths.has(k) ? seenPaths.get(k) : 0
seenGet(seenPaths, pathId) ==
  IF pathId \in DOMAIN seenPaths THEN seenPaths[pathId] ELSE 0

seenSet(seenPaths, pathId, v) ==
  [k \in DOMAIN seenPaths \cup {pathId} |->
     IF k = pathId THEN v ELSE seenPaths[k]]

\* mutation: the stored depth is overwritten instead of maximised
RECURSIVE seenPathsAfter_overwrite(_, _)
seenPathsAfter_overwrite(recs, n) ==
  IF n = 0 THEN << >>
  ELSE seenSet(seenPathsAfter_overwrite(recs, n - 1),
               pathIdOf(recs[n]), recs[n].targetDepth)

\* the .map pass of onlyKeepLongestPaths: seenPaths after the first n records
RECURSIVE seenPathsAfter(_, _)
seenPathsAfter(recs, n) ==
  IF n = 0 THEN << >>
  ELSE LET seen == seenPathsAfter(recs, n - 1)
           pathId == pathIdOf(recs[n])
           currDepth == seenGet(seen, pathId)
       IN seenSet(seen, pathId, Max2(currDepth, recs[n].targetDepth))

onlyKeepLongestPaths(recs) ==
  LET seenPaths == seenPathsAfter(recs, Len(recs))
      keep(record) == record.targetDepth = seenGet(seenPaths, pathIdOf(record))
  IN SelectSeq(recs, keep)

InitPaths ==
  /\ phase = "chunked"
  /\ chunkRecords \in BoundedSeq(PathRecords, MaxRecords)
  /\ records = <<>>
  /\ IdleProfile
  /\ IdleProcess
  /\ IdleMerge
  /\ IdleInvocation

\* PreProcessingService constructor, line 58
KeepLongestPaths ==
  /\ phase = "chunked"
  /\ records' = onlyKeepLongestPaths(chunkRecords)
  /\ phase' = "preprocessed"
  /\ UNCHANGED <<chunkRecords, varsProfile, varsProcess, varsMerge, varsInvocation>>

NextPaths == KeepLongestPaths

SpecPaths == InitPaths /\ [][NextPaths]_vars

\* the ordered sequence of dependency-edge ids of a record
depIdSeq(record) ==
  LET es == flat(record.dependencyEdges)
  IN [i \in 1..Len(es) |-> es[i].elementId]

groupMax(recs, record) ==
  LET ds == {recs[i].targetDepth :
               i \in {j \in 1..Len(recs) : depIdSeq(recs[j]) = depIdSeq(record)}}
  IN CHOOSE d \in ds : \A e \in ds : e <= d

isGroupMax(record) == record.targetDepth = groupMax(chunkRecords, record)

\* C4: onlyKeepLongestPaths returns, in input order, exactly the records whose
\* targetDepth equals the maximum targetDepth of the records sharing their
\* ordered sequence of dependency-edge ids (the empty sequence included).
C4_KeepsExactlyGroupMaxima ==
  phase = "preprocessed" => records = SelectSeq(chunkRecords, isGroupMax)

\* a run with a tie that is kept, a shorter duplicate that is removed and a
\* record without dependency edges
C4_Witness ==
  /\ phase = "preprocessed"
  /\ Len(chunkRecords) = 3
  /\ Len(records) = 2
  /\ \E i \in 1..3 : chunkRecords[i].dependencyEdges = <<>>
  /\ \E i, j \in 1..3 :
       /\ i # j
       /\ depIdSeq(chunkRecords[i]) = depIdSeq(chunkRecords[j])
       /\ chunkRecords[i].targetDepth < chunkRecords[j].targetDepth

====
